---- MODULE Spec2Model ----
(***************************************************************************)
(* ManagedStringAggState (string_agg.rs): the managed state of an ordered  *)
(* string_agg over a retraction stream, with its all-or-nothing cache, its *)
(* flush into a caller-owned write batch and its recovery from a row count.*)
(* The configuration is the one of create_managed_state: sort key          *)
(* [c1 Descending, c2 Ascending], value column c1, delimiter "||",         *)
(* keyspace prefix 0x2333.                                                 *)
(***************************************************************************)
EXTENDS Integers, Sequences, FiniteSets, TLC

VARIABLES
    cache,          \* BTreeMap<Bytes, FlushStatus<ScalarImpl>>: sort key -> status
    result,         \* Option<String>: the memoized result
    dirty,          \* bool
    total_count,    \* usize, kept as its signed residue (-1 stands for usize::MAX)
    store,          \* the shared state store: raw key -> raw value
    write_batch,    \* the caller's Vec<(Bytes, Option<Bytes>)>
    flush_pending,  \* a successful flush of this state is not ingested yet
    ckpt_count,     \* the row count the caller persisted with its last checkpoint
    panicked,       \* an assertion failed or an overflow check fired: the state is gone
    last_call,      \* the last call on the state and what it returned
    live,           \* the rows of the group after the events applied so far
    durable,        \* the rows of the group as of the last checkpoint
    hist,           \* what the stream and the last re-creation were like
    table,          \* Arc<BummockTable>: the column ids and the stored chunks
    seq_scan_executor,  \* the SeqScanExecutor that scans the table
    scan_log,       \* what the calls on the executor did and returned so far
    infer_call,     \* a call of infer_type: its arguments and what it returned
    fragment_graph, \* a StreamFragmentGraph
    graph_log       \* what the calls on the graph were given so far

vars == <<cache, result, dirty, total_count, store, write_batch, flush_pending,
          ckpt_count, panicked, last_call, live, durable, hist,
          table, seq_scan_executor, scan_log, infer_call, fragment_graph, graph_log>>

graph_vars == <<fragment_graph, graph_log>>

scan_vars == <<table, seq_scan_executor, scan_log>>

(***************************************************************************)
(* Bounds of the model.                                                    *)
(***************************************************************************)
MaxRowId == 1       \* c2 ranges over 0..MaxRowId
MaxBatch == 2       \* rows per apply_batch call
MaxAnyBatch == 1    \* rows per apply_batch call of an undisciplined stream
MaxCount == 3       \* no batch takes total_count above this
MaxOtherOps == 1    \* operations of other states in the write batch
MaxCorrupt == 1     \* persisted values that are corrupt at one time

(***************************************************************************)
(* The configuration of create_managed_state.                              *)
(***************************************************************************)
Prefix == 9011                      \* 0x2333
OtherPrefix == Prefix + 1           \* the keyspace of some other state
delimiter == "||"
\* orderings with both sort columns ascending: C17 tells them apart.
orderings_Ascending == <<"Ascending", "Ascending">>

orderings == <<"Descending", "Ascending">>
sort_key_indices == <<1, 2>>        \* columns 0 and 1 of the chunk
value_index == 1                    \* column 0 of the chunk

RowIds == 0 .. MaxRowId             \* the row ids of column c2
\* Column c1 of the row with c2 = id: the rows of the test chunks.
StrOf(id) == <<"abc", "def", "ghi", "def", "abc">>[(id % 5) + 1]
Rows == {<<StrOf(id), id>> : id \in RowIds}    \* the rows <<c1, c2>> of the table
OpKinds == {"Insert", "Delete", "UpdateInsert", "UpdateDelete"}

\* Option<T>
None == [some |-> FALSE, v |-> ""]
Some(x) == [some |-> TRUE, v |-> x]

\* The leading byte of a string of column c1, in which the strings differ.
Ord(s) == CASE s = "abc" -> 97 [] s = "def" -> 100 [] s = "ghi" -> 103 [] OTHER -> 0
Chr(b) == CASE b = 97 -> "abc" [] b = 100 -> "def" [] b = 103 -> "ghi" [] OTHER -> ""

(***************************************************************************)
(* OrderedArraysSerializer: one memcomparable byte per sort column, bit-   *)
(* complemented for a Descending column.                                   *)
(***************************************************************************)
\* The schema: column c1 is Utf8, column c2 is Int64 (its sign bit flipped).
ColByte(col, x) == IF col = 1 THEN Ord(x) ELSE 128 + x

EncodeCol(col, x, order) ==
    IF order = "Descending" THEN 255 - ColByte(col, x) ELSE ColByte(col, x)

order_based_scehmaed_serialize(row) ==
    [i \in 1 .. Len(sort_key_indices) |->
        EncodeCol(sort_key_indices[i], row[sort_key_indices[i]], orderings[i])]

\* Byte-lexicographic order of Bytes, the order of the BTreeMap and of the store.
BytesLess(a, b) ==
    \/ \E i \in 1 .. Len(a) :
          /\ i <= Len(b)
          /\ a[i] < b[i]
          /\ \A j \in 1 .. (i - 1) : a[j] = b[j]
    \/ /\ Len(a) < Len(b)
       /\ \A j \in 1 .. Len(a) : a[j] = b[j]

RECURSIVE Ascending(_)
Ascending(S) ==
    IF S = {} THEN <<>>
    ELSE LET m == CHOOSE x \in S : \A y \in S \ {x} : BytesLess(x, y)
         IN  <<m>> \o Ascending(S \ {m})

(***************************************************************************)
(* FlushStatus: what will happen to a key at the next flush.               *)
(***************************************************************************)
Insert(v) == [tag |-> "Insert", v |-> v]
Delete == [tag |-> "Delete", v |-> ""]
DeleteInsert(v) == [tag |-> "DeleteInsert", v |-> v]

merge_insert(existing, v) ==
    IF existing.tag = "Insert" THEN Insert(v) ELSE DeleteInsert(v)

do_insert(c, k, v) ==
    IF k \in DOMAIN c THEN [c EXCEPT ![k] = merge_insert(@, v)]
    ELSE [x \in DOMAIN c \cup {k} |-> IF x = k THEN Insert(v) ELSE c[x]]

do_delete(c, k) ==
    IF k \in DOMAIN c
    THEN IF c[k].tag = "Insert"
         THEN [x \in DOMAIN c \ {k} |-> c[x]]
         ELSE [c EXCEPT ![k] = Delete]
    ELSE [x \in DOMAIN c \cup {k} |-> IF x = k THEN Delete ELSE c[x]]

as_option(status) == IF status.tag = "Delete" THEN None ELSE Some(status.v)

(***************************************************************************)
(* Keyspace and the value encoding.                                        *)
(***************************************************************************)
prefixed_key(key) == <<Prefix>> \o key

serialize_datum_not_null_into(s) == <<1, Ord(s)>>

DecodeOk(raw) == Len(raw) = 2 /\ raw[1] = 1 /\ Chr(raw[2]) # ""

deserialize_datum_not_null_from(raw) == Chr(raw[2])

CorruptBytes == <<0>>     \* bytes that are no Char datum

\* Keyspace::scan_strip_prefix(None): this keyspace's entries, prefix stripped,
\* in ascending order of the key.
scan_strip_prefix(st) ==
    LET own == {Tail(rk) : rk \in {x \in DOMAIN st : x[1] = Prefix}}
        ks  == Ascending(own)
    IN  [i \in 1 .. Len(ks) |-> <<ks[i], st[prefixed_key(ks[i])]>>]

EmptyMap == [x \in {} |-> Delete]

\* Option<Bytes> of a write batch operation
NoBytes == [some |-> FALSE, v |-> <<>>]
SomeBytes(b) == [some |-> TRUE, v |-> b]

(***************************************************************************)
(* The state object as a record, and its methods as operators on it.       *)
(* A method gives the state after the call and what the call returned:     *)
(* "Ok", "StorageError", "DecodeError", "SerializeError" or "Panic".       *)
(***************************************************************************)
new(row_count) ==
    [cache |-> EmptyMap, result |-> None, dirty |-> FALSE, total_count |-> row_count]

is_dirty(s) == s.dirty

CacheLen(s) == Cardinality(DOMAIN s.cache)

\* total_count > n on usize: a negative residue stands for a value near usize::MAX
UsizeGt(count, n) == count < 0 \/ count > n

\* LoadedStatus with the persisted value loaded as an Insert: C8 tells them apart.
LoadedStatus_AsInsert(value_string) == Insert(value_string)

\* The status a persisted value is loaded as.
LoadedStatus(value_string) == DeleteInsert(value_string)

\* LoadEntries without the first entry of the scan: C3 tells them apart.
LoadEntries_SkipsFirst(c, all_data, n) ==
    LET ks == {all_data[i][1] : i \in 2 .. n}
        At(k) == CHOOSE i \in 2 .. n : all_data[i][1] = k
    IN  [k \in DOMAIN c \cup ks |->
            IF k \in ks
            THEN DeleteInsert(deserialize_datum_not_null_from(all_data[At(k)][2]))
            ELSE c[k]]

\* The first n entries of the scan inserted into cache c.
LoadEntries(c, all_data, n) ==
    LET ks == {all_data[i][1] : i \in 1 .. n}
        At(k) == CHOOSE i \in 1 .. n : all_data[i][1] = k
    IN  [k \in DOMAIN c \cup ks |->
            IF k \in ks
            THEN LoadedStatus(deserialize_datum_not_null_from(all_data[At(k)][2]))
            ELSE c[k]]

read_all_into_memory(s, st, scan_ok) ==
    IF is_dirty(s) THEN [s |-> s, ret |-> "Panic"]
    ELSE IF ~scan_ok THEN [s |-> s, ret |-> "StorageError"]
    ELSE LET all_data == scan_strip_prefix(st)
             bad == {i \in 1 .. Len(all_data) : ~DecodeOk(all_data[i][2])}
             first_bad == CHOOSE i \in bad : \A j \in bad : i <= j
         IN  IF bad = {}
             THEN [s |-> [s EXCEPT !.cache = LoadEntries(s.cache, all_data, Len(all_data)),
                                   !.dirty = FALSE],
                   ret |-> "Ok"]
             ELSE [s |-> [s EXCEPT !.cache = LoadEntries(s.cache, all_data, first_bad - 1)],
                   ret |-> "DecodeError"]

RECURSIVE Join(_, _)
Join(strs, sep) ==
    IF strs = <<>> THEN ""
    ELSE IF Len(strs) = 1 THEN strs[1]
    ELSE strs[1] \o sep \o Join(Tail(strs), sep)

\* PresentValues with the empty string of every tombstone among them: C30
\* tells them apart.
PresentValues_WithTombstones(c, ks) == [i \in 1 .. Len(ks) |-> c[ks[i]].v]

\* cache.values().filter_map(|value| value.as_option()): the present values in
\* the order of the keys.
RECURSIVE PresentValues(_, _)
PresentValues(c, ks) ==
    IF ks = <<>> THEN <<>>
    ELSE LET o == as_option(c[Head(ks)])
         IN  (IF o.some THEN <<o.v>> ELSE <<>>) \o PresentValues(c, Tail(ks))

\* CacheIterOrder from the greatest key down: C2 tells them apart.
CacheIterOrder_Descending(c) ==
    LET up == Ascending(DOMAIN c)
    IN  [i \in 1 .. Len(up) |-> up[Len(up) + 1 - i]]

CacheIterOrder(c) == Ascending(DOMAIN c)

\* concat_strings_in_cache_into_result without the return at total_count = 0:
\* C6 tells them apart.
concat_strings_in_cache_into_result_AtZero(s) ==
    IF s.result.some THEN s
    ELSE [s EXCEPT !.result =
            Some(Join(PresentValues(s.cache, Ascending(DOMAIN s.cache)), delimiter))]

concat_strings_in_cache_into_result(s) ==
    IF s.result.some THEN s
    ELSE IF s.total_count = 0 THEN s
    ELSE [s EXCEPT !.result =
            Some(Join(PresentValues(s.cache, CacheIterOrder(s.cache)), delimiter))]

get_result(s) == s.result

\* NeedsLoad that holds for every empty cache: C26 tells them apart.
NeedsLoad_WhenEmpty(s) == CacheLen(s) = 0

\* The guard of the load in apply_batch: self.total_count > self.cache.len().
NeedsLoad(s) == UsizeGt(s.total_count, CacheLen(s))

\* IsInsertOp without the update half: C15 tells them apart.
IsInsertOp_InsertOnly(op) == op = "Insert"

\* One row of the batch: [op, row, visible]. overflow_checks is the build's
\* setting: with it an overflowing += 1 or -= 1 panics, without it it wraps.
IsInsertOp(op) == op \in {"Insert", "UpdateInsert"}

\* ApplyRow that merges the rows the bitmap hides: C14 tells them apart.
ApplyRow_IgnoresVisibility(s, r, overflow_checks) ==
    LET key_bytes == order_based_scehmaed_serialize(r.row)
        value == r.row[value_index]
    IN  IF IsInsertOp(r.op)
        THEN [s |-> [s EXCEPT !.cache = do_insert(@, key_bytes, value),
                              !.total_count = @ + 1,
                              !.dirty = TRUE,
                              !.result = None],
              ret |-> "Ok"]
        ELSE [s |-> [s EXCEPT !.cache = do_delete(@, key_bytes),
                              !.total_count = @ - 1,
                              !.dirty = TRUE,
                              !.result = None],
              ret |-> "Ok"]

\* ApplyRow that leaves the memoized result in place: C1 tells them apart.
ApplyRow_KeepsResult(s, r, overflow_checks) ==
    IF ~r.visible THEN [s |-> s, ret |-> "Ok"]
    ELSE LET key_bytes == order_based_scehmaed_serialize(r.row)
             value == r.row[value_index]
         IN  IF IsInsertOp(r.op)
             THEN [s |-> [s EXCEPT !.cache = do_insert(@, key_bytes, value),
                                   !.total_count = @ + 1,
                                   !.dirty = TRUE],
                   ret |-> "Ok"]
             ELSE [s |-> [s EXCEPT !.cache = do_delete(@, key_bytes),
                                   !.total_count = @ - 1,
                                   !.dirty = TRUE],
                   ret |-> "Ok"]

\* ApplyRow whose insert leaves total_count alone: C29 tells them apart.
ApplyRow_InsertKeepsCount(s, r, overflow_checks) ==
    IF ~r.visible THEN [s |-> s, ret |-> "Ok"]
    ELSE LET key_bytes == order_based_scehmaed_serialize(r.row)
             value == r.row[value_index]
         IN  IF IsInsertOp(r.op)
             THEN [s |-> [s EXCEPT !.cache = do_insert(@, key_bytes, value),
                                   !.dirty = TRUE,
                                   !.result = None],
                   ret |-> "Ok"]
             ELSE IF s.total_count = 0 /\ overflow_checks
                  THEN [s |-> s, ret |-> "Panic"]
                  ELSE [s |-> [s EXCEPT !.cache = do_delete(@, key_bytes),
                                        !.total_count = @ - 1,
                                        !.dirty = TRUE,
                                        !.result = None],
                        ret |-> "Ok"]

\* ApplyRow whose delete leaves total_count alone: C23 tells them apart.
ApplyRow_DeleteKeepsCount(s, r, overflow_checks) ==
    IF ~r.visible THEN [s |-> s, ret |-> "Ok"]
    ELSE LET key_bytes == order_based_scehmaed_serialize(r.row)
             value == r.row[value_index]
         IN  IF IsInsertOp(r.op)
             THEN IF s.total_count = -1 /\ overflow_checks
                  THEN [s |-> s, ret |-> "Panic"]
                  ELSE [s |-> [s EXCEPT !.cache = do_insert(@, key_bytes, value),
                                        !.total_count = @ + 1,
                                        !.dirty = TRUE,
                                        !.result = None],
                        ret |-> "Ok"]
             ELSE [s |-> [s EXCEPT !.cache = do_delete(@, key_bytes),
                                   !.dirty = TRUE,
                                   !.result = None],
                   ret |-> "Ok"]

ApplyRow(s, r, overflow_checks) ==
    IF ~r.visible THEN [s |-> s, ret |-> "Ok"]
    ELSE LET key_bytes == order_based_scehmaed_serialize(r.row)
             value == r.row[value_index]
         IN  IF IsInsertOp(r.op)
             THEN IF s.total_count = -1 /\ overflow_checks
                  THEN [s |-> s, ret |-> "Panic"]
                  ELSE [s |-> [s EXCEPT !.cache = do_insert(@, key_bytes, value),
                                        !.total_count = @ + 1,
                                        !.dirty = TRUE,
                                        !.result = None],
                        ret |-> "Ok"]
             ELSE IF s.total_count = 0 /\ overflow_checks
                  THEN [s |-> s, ret |-> "Panic"]
                  ELSE [s |-> [s EXCEPT !.cache = do_delete(@, key_bytes),
                                        !.total_count = @ - 1,
                                        !.dirty = TRUE,
                                        !.result = None],
                        ret |-> "Ok"]

\* ApplyRows from the last row of the batch to the first: C5 tells them apart.
RECURSIVE ApplyRows_Backwards(_, _, _)
ApplyRows_Backwards(s, batch, overflow_checks) ==
    IF batch = <<>> THEN [s |-> s, ret |-> "Ok"]
    ELSE LET n == Len(batch)
             one == ApplyRow(s, batch[n], overflow_checks)
         IN  IF one.ret # "Ok" THEN one
             ELSE ApplyRows_Backwards(one.s, SubSeq(batch, 1, n - 1), overflow_checks)

RECURSIVE ApplyRows(_, _, _)
ApplyRows(s, batch, overflow_checks) ==
    IF batch = <<>> THEN [s |-> s, ret |-> "Ok"]
    ELSE LET one == ApplyRow(s, Head(batch), overflow_checks)
         IN  IF one.ret # "Ok" THEN one
             ELSE ApplyRows(one.s, Tail(batch), overflow_checks)

apply_batch(s, st, batch, scan_ok, overflow_checks) ==
    LET pre == IF NeedsLoad(s)
               THEN IF CacheLen(s) # 0 THEN [s |-> s, ret |-> "Panic"]
                    ELSE read_all_into_memory(s, st, scan_ok)
               ELSE [s |-> s, ret |-> "Ok"]
    IN  IF pre.ret # "Ok" THEN pre
        ELSE ApplyRows(pre.s, batch, overflow_checks)

\* get_output that leaves the state clean: C18 tells them apart.
get_output_ClearsDirty(s, st, scan_ok) ==
    IF ~is_dirty(s) /\ s.result.some
    THEN [s |-> s, ret |-> "Ok", out |-> s.result]
    ELSE IF ~is_dirty(s) /\ s.total_count = 0
    THEN [s |-> s, ret |-> "Ok", out |-> None]
    ELSE IF ~is_dirty(s) /\ CacheLen(s) # 0
    THEN LET t == concat_strings_in_cache_into_result(s)
         IN  [s |-> t, ret |-> "Ok", out |-> t.result]
    ELSE LET ld == IF is_dirty(s) THEN [s |-> s, ret |-> "Ok"]
                   ELSE read_all_into_memory(s, st, scan_ok)
             t  == concat_strings_in_cache_into_result(ld.s)
         IN  IF ld.ret # "Ok" THEN [s |-> ld.s, ret |-> ld.ret, out |-> None]
             ELSE [s |-> [t EXCEPT !.dirty = FALSE], ret |-> "Ok", out |-> get_result(t)]

\* get_output that loads for a dirty state whose cache is empty: C27 tells
\* them apart.
get_output_LoadsWhenEmpty(s, st, scan_ok) ==
    IF ~is_dirty(s) /\ s.result.some
    THEN [s |-> s, ret |-> "Ok", out |-> s.result]
    ELSE IF ~is_dirty(s) /\ s.total_count = 0
    THEN [s |-> s, ret |-> "Ok", out |-> None]
    ELSE IF ~is_dirty(s) /\ CacheLen(s) # 0
    THEN LET t == concat_strings_in_cache_into_result(s)
         IN  [s |-> t, ret |-> "Ok", out |-> t.result]
    ELSE LET ld == IF is_dirty(s) /\ CacheLen(s) # 0 THEN [s |-> s, ret |-> "Ok"]
                   ELSE read_all_into_memory(s, st, scan_ok)
             t  == concat_strings_in_cache_into_result(ld.s)
         IN  IF ld.ret # "Ok" THEN [s |-> ld.s, ret |-> ld.ret, out |-> None]
             ELSE [s |-> t, ret |-> "Ok", out |-> get_result(t)]

\* get_output that never loads: C4 tells them apart.
get_output_NeverLoads(s, st, scan_ok) ==
    IF ~is_dirty(s) /\ s.result.some
    THEN [s |-> s, ret |-> "Ok", out |-> s.result]
    ELSE IF ~is_dirty(s) /\ s.total_count = 0
    THEN [s |-> s, ret |-> "Ok", out |-> None]
    ELSE LET t == concat_strings_in_cache_into_result(s)
         IN  [s |-> t, ret |-> "Ok", out |-> t.result]

get_output(s, st, scan_ok) ==
    IF ~is_dirty(s) /\ s.result.some
    THEN [s |-> s, ret |-> "Ok", out |-> s.result]
    ELSE IF ~is_dirty(s) /\ s.total_count = 0
    THEN [s |-> s, ret |-> "Ok", out |-> None]
    ELSE IF ~is_dirty(s) /\ CacheLen(s) # 0
    THEN LET t == concat_strings_in_cache_into_result(s)
         IN  [s |-> t, ret |-> "Ok", out |-> t.result]
    ELSE LET ld == IF is_dirty(s) THEN [s |-> s, ret |-> "Ok"]
                   ELSE read_all_into_memory(s, st, scan_ok)
             t  == concat_strings_in_cache_into_result(ld.s)
         IN  IF ld.ret # "Ok" THEN [s |-> ld.s, ret |-> ld.ret, out |-> None]
             ELSE [s |-> t, ret |-> "Ok", out |-> get_result(t)]

\* FlushOp that writes a deletion for a DeleteInsert entry: C10 tells them apart.
FlushOp_InsertOnly(key, status) ==
    IF status.tag = "Insert"
    THEN <<prefixed_key(key), SomeBytes(serialize_datum_not_null_into(status.v))>>
    ELSE <<prefixed_key(key), NoBytes>>

\* FlushOp with the key as the cache holds it, without the prefix: C16 tells
\* them apart.
FlushOp_WithoutPrefix(key, status) ==
    IF as_option(status).some
    THEN <<key, SomeBytes(serialize_datum_not_null_into(as_option(status).v))>>
    ELSE <<key, NoBytes>>

\* The write batch operation of one drained cache entry.
FlushOp(key, status) ==
    LET value == as_option(status)
    IN  IF value.some
        THEN <<prefixed_key(key), SomeBytes(serialize_datum_not_null_into(value.v))>>
        ELSE <<prefixed_key(key), NoBytes>>

\* flush that pushes nothing for a Delete entry: C28 tells them apart.
flush_SkipsTombstones(s, wb, fail_at) ==
    IF ~is_dirty(s) THEN [s |-> s, wb |-> wb, ret |-> "Ok"]
    ELSE LET ks == SelectSeq(Ascending(DOMAIN s.cache), LAMBDA k : s.cache[k].tag # "Delete")
             n  == IF fail_at = 0 THEN Len(ks) ELSE fail_at - 1
         IN  [s |-> [s EXCEPT !.cache = EmptyMap, !.dirty = (fail_at # 0)],
              wb |-> wb \o [i \in 1 .. n |-> FlushOp(ks[i], s.cache[ks[i]])],
              ret |-> IF fail_at = 0 THEN "Ok" ELSE "SerializeError"]

\* flush that sets total_count to zero with the drained cache: C19 tells them
\* apart.
flush_ResetsCount(s, wb, fail_at) ==
    IF ~is_dirty(s) THEN [s |-> s, wb |-> wb, ret |-> "Ok"]
    ELSE LET ks == Ascending(DOMAIN s.cache)
             n  == IF fail_at = 0 THEN Len(ks) ELSE fail_at - 1
         IN  [s |-> [s EXCEPT !.cache = EmptyMap, !.dirty = (fail_at # 0), !.total_count = 0],
              wb |-> wb \o [i \in 1 .. n |-> FlushOp(ks[i], s.cache[ks[i]])],
              ret |-> IF fail_at = 0 THEN "Ok" ELSE "SerializeError"]

\* flush that leaves the drained entries in the cache: C9 tells them apart.
flush_KeepsCache(s, wb, fail_at) ==
    IF ~is_dirty(s) THEN [s |-> s, wb |-> wb, ret |-> "Ok"]
    ELSE LET ks == Ascending(DOMAIN s.cache)
         IN  [s |-> [s EXCEPT !.dirty = FALSE],
              wb |-> wb \o [i \in 1 .. Len(ks) |-> FlushOp(ks[i], s.cache[ks[i]])],
              ret |-> IF fail_at = 0 THEN "Ok" ELSE "SerializeError"]

\* fail_at = 0: every value serializes; fail_at = i: the i-th drained entry's
\* serialization fails, after the cache has been taken.
flush(s, wb, fail_at) ==
    IF ~is_dirty(s) THEN [s |-> s, wb |-> wb, ret |-> "Ok"]
    ELSE LET ks == CacheIterOrder(s.cache)
             n  == IF fail_at = 0 THEN Len(ks) ELSE fail_at - 1
             pushed == [i \in 1 .. n |-> FlushOp(ks[i], s.cache[ks[i]])]
         IN  IF fail_at = 0
             THEN [s |-> [s EXCEPT !.cache = EmptyMap, !.dirty = FALSE],
                   wb |-> wb \o pushed, ret |-> "Ok"]
             ELSE [s |-> [s EXCEPT !.cache = EmptyMap],
                   wb |-> wb \o pushed, ret |-> "SerializeError"]

\* StateStore::ingest_batch: the puts and deletes of the batch, in order.
RECURSIVE ingest_batch(_, _)
ingest_batch(st, wb) ==
    IF wb = <<>> THEN st
    ELSE LET k == Head(wb)[1]
             v == Head(wb)[2]
             nxt == IF v.some
                    THEN [x \in DOMAIN st \cup {k} |-> IF x = k THEN v.v ELSE st[x]]
                    ELSE [x \in DOMAIN st \ {k} |-> st[x]]
         IN  ingest_batch(nxt, Tail(wb))

(***************************************************************************)
(* The group the stream describes, kept beside the state: the rows that    *)
(* are live, and what string_agg of them is.                               *)
(***************************************************************************)
RowBefore(r1, r2) ==
    \/ Ord(r1[1]) > Ord(r2[1])
    \/ r1[1] = r2[1] /\ r1[2] < r2[2]

RECURSIVE RowsInOrder(_)
RowsInOrder(L) ==
    IF L = {} THEN <<>>
    ELSE LET m == CHOOSE x \in L : \A y \in L \ {x} : RowBefore(x, y)
         IN  <<m>> \o RowsInOrder(L \ {m})

AbstractOutput(L) ==
    IF L = {} THEN None
    ELSE LET rs == RowsInOrder(L)
         IN  Some(Join([i \in 1 .. Len(rs) |-> rs[i][1]], "||"))

VisibleRows(batch) == SelectSeq(batch, LAMBDA r : r.visible)

RECURSIVE LiveAfter(_, _)
LiveAfter(L, rows) ==
    IF rows = <<>> THEN L
    ELSE LiveAfter(IF IsInsertOp(Head(rows).op) THEN L \cup {Head(rows).row}
                   ELSE L \ {Head(rows).row},
                   Tail(rows))

\* Every insert targets a row that is not live, every delete one that is.
RECURSIVE Disciplined(_, _)
Disciplined(L, rows) ==
    IF rows = <<>> THEN TRUE
    ELSE /\ IF IsInsertOp(Head(rows).op) THEN Head(rows).row \notin L
            ELSE Head(rows).row \in L
         /\ Disciplined(LiveAfter(L, <<Head(rows)>>), Tail(rows))

S == [cache |-> cache, result |-> result, dirty |-> dirty, total_count |-> total_count]

OwnKeys(st) == {x \in DOMAIN st : x[1] = Prefix}
OwnOps(wb) == {i \in 1 .. Len(wb) : wb[i][1][1] = Prefix}

\* The rows of a batch: an Insert and a Delete of every row, the update halves
\* of one row, and two rows the bitmap hides.
RowInputs ==
    [op : {"Insert", "Delete"}, row : Rows, visible : {TRUE}]
        \cup [op : OpKinds \ {"Insert", "Delete"}, row : {<<StrOf(0), 0>>}, visible : {TRUE}]
        \cup [op : {"Insert", "Delete"}, row : {<<StrOf(0), 0>>}, visible : {FALSE}]

BatchesOf(len) == UNION {[1 .. n -> RowInputs] : n \in 1 .. len}

Batches == BatchesOf(MaxBatch)

AnyBatches == BatchesOf(MaxAnyBatch)

(***************************************************************************)
(* SeqScanExecutor (executor/seq_scan.rs). A column is the array it holds, *)
(* a chunk the sequence of its columns, a table its column ids in column   *)
(* order and its chunks in stored order. The table does not change while   *)
(* it is scanned.                                                          *)
(***************************************************************************)
MaxChunks == 2
MaxColumnIds == 2
MaxNones == 2

col1 == <<1, 3, 5, 7, 9>>
col2 == <<2, 4, 6, 8, 10>>

Arrays == {col1, col2}

\* The column ids of a table, in column order.
TableColumns == {<<0>>, <<0, 1>>, <<1, 0>>}

BummockTable(column_ids, chunks) == [column_ids |-> column_ids, chunks |-> chunks]

Tables ==
    UNION {{BummockTable(ids, chunks) :
              chunks \in UNION {[1 .. n -> [1 .. Len(ids) -> Arrays]] : n \in 0 .. MaxChunks}} :
           ids \in TableColumns}

\* The column id lists a plan can request of a table.
ColumnIdLists(t) ==
    UNION {[1 .. n -> {t.column_ids[i] : i \in 1 .. Len(t.column_ids)}] : n \in 0 .. MaxColumnIds}

\* The table of the test: one column with id 0, two chunks.
TestTable == BummockTable(<<0>>, <<(<<col1>>), (<<col2>>)>>)

NoChunk == [some |-> FALSE, v |-> <<>>]
SomeChunk(c) == [some |-> TRUE, v |-> c]

SeqScanExecutor(column_ids) ==
    [first_execution |-> TRUE, column_ids |-> column_ids, column_indices |-> <<>>,
     data |-> <<>>, chunk_idx |-> 0]

\* BummockTable::get_data: the stored chunks, or the end of data for a table
\* without chunks (eof tells which of the two an empty table answers).
get_data(t, eof) ==
    IF t.chunks = <<>> /\ eof THEN [kind |-> "DataEof", data |-> <<>>]
    ELSE [kind |-> "Data", data |-> t.chunks]

\* BummockTable::index_of_column_id: the 0-based position of the column, -1
\* for None.
index_of_column_id(t, c) ==
    IF \E i \in 1 .. Len(t.column_ids) : t.column_ids[i] = c
    THEN (CHOOSE i \in 1 .. Len(t.column_ids) : t.column_ids[i] = c) - 1
    ELSE -1

\* DataChunk::column_at is an error for an index past the chunk's columns.
ColumnAtOk(chunk, idx) == idx >= 0 /\ idx < Len(chunk)
column_at(chunk, idx) == chunk[idx + 1]

\* Lines 101-117 of next: the chunk at chunk_idx, projected.
NextChunk(e, read) ==
    IF e.chunk_idx >= Len(e.data)
    THEN [s |-> e, ret |-> "Ok", out |-> NoChunk, read |-> read]
    ELSE LET cur_chunk == e.data[e.chunk_idx + 1]
         IN  IF \E j \in 1 .. Len(e.column_indices) : ~ColumnAtOk(cur_chunk, e.column_indices[j])
             THEN [s |-> e, ret |-> "Err", out |-> NoChunk, read |-> read]
             ELSE [s |-> [e EXCEPT !.chunk_idx = e.chunk_idx + 1],
                   ret |-> "Ok",
                   out |-> SomeChunk([j \in 1 .. Len(e.column_indices) |->
                                         column_at(cur_chunk, e.column_indices[j])]),
                   read |-> read]

\* next that returns the chunk and stays on it: C20 tells them apart.
next_StaysOnChunk(e, t, eof) ==
    LET r == NextChunk(e, FALSE)
    IN  IF e.first_execution
        THEN LET got == get_data(t, eof)
                 e1 == [e EXCEPT !.first_execution = FALSE]
                 e2 == [e1 EXCEPT !.data = got.data,
                                  !.column_indices = [j \in 1 .. Len(e.column_ids) |->
                                                         index_of_column_id(t, e.column_ids[j])]]
                 r2 == NextChunk(e2, TRUE)
             IN  IF got.kind # "Data"
                 THEN [s |-> e1, ret |-> "Ok", out |-> NoChunk, read |-> TRUE]
                 ELSE [r2 EXCEPT !.s = e2]
        ELSE [r EXCEPT !.s = e]

\* SeqScanExecutor::next. read tells whether the call read the table.
next(e, t, eof) ==
    IF e.first_execution
    THEN LET got == get_data(t, eof)
             e1 == [e EXCEPT !.first_execution = FALSE]
             e2 == [e1 EXCEPT !.data = got.data]
             e3 == [e2 EXCEPT !.column_indices = [j \in 1 .. Len(e.column_ids) |->
                                                      index_of_column_id(t, e.column_ids[j])]]
         IN  IF got.kind # "Data"
             THEN [s |-> e1, ret |-> "Ok", out |-> NoChunk, read |-> TRUE]
             ELSE IF \E j \in 1 .. Len(e.column_ids) : index_of_column_id(t, e.column_ids[j]) = -1
             THEN [s |-> e2, ret |-> "Panic", out |-> NoChunk, read |-> TRUE]
             ELSE NextChunk(e3, TRUE)
    ELSE NextChunk(e, FALSE)

(***************************************************************************)
(* Type inference (frontend/src/expr/type_inference.rs). A DataTypeKind    *)
(* and an expr_node::Type are their names; a FuncSign is the record of a   *)
(* function and the list of its input types.                               *)
(***************************************************************************)
MaxInputs == 2

\* The discriminant of a DataTypeKind, as `t as i32` reads it.
DataTypeKindAsI32(t) ==
    CASE t = "Boolean" -> 0
      [] t = "Int16" -> 1
      [] t = "Int32" -> 2
      [] t = "Int64" -> 3
      [] t = "Float32" -> 4
      [] t = "Float64" -> 5
      [] t = "Decimal" -> 6
      [] t = "Date" -> 7
      [] t = "Char" -> 8
      [] t = "Varchar" -> 9
      [] t = "Time" -> 10
      [] t = "Timestamp" -> 11
      [] t = "Timestampz" -> 12
      [] t = "Interval" -> 13

FuncSign(func, inputs_type) == [func |-> func, inputs_type |-> inputs_type]
new_unary(func, p1) == FuncSign(func, <<p1>>)
new_binary(func, p1, p2) == FuncSign(func, <<p1, p2>>)

\* arithmetic_type_derive that answers its first input: C21 tells them apart.
arithmetic_type_derive_First(t1, t2) == t1

arithmetic_type_derive(t1, t2) ==
    IF DataTypeKindAsI32(t2) > DataTypeKindAsI32(t1) THEN t2 ELSE t1

\* num_types with Boolean among them: C22 tells them apart.
num_types_WithBoolean == {"Int16", "Int32", "Int64", "Float32", "Float64", "Decimal", "Boolean"}

num_types == {"Int16", "Int32", "Int64", "Float32", "Float64", "Decimal"}

all_types ==
    {"Int16", "Int32", "Int64", "Float32", "Float64", "Boolean", "Char", "Varchar",
     "Decimal", "Time", "Timestamp", "Interval", "Date", "Timestampz"}

atm_exprs == {"Add", "Subtract", "Multiply", "Divide", "Modulus"}

cmp_exprs ==
    {"Equal", "NotEqual", "LessThan", "LessThanOrEqual", "GreaterThan", "GreaterThanOrEqual"}

logical_exprs == {"And", "Or", "Not"}

bool_check_exprs == {"IsTrue", "IsNotTrue", "IsFalse", "IsNotFalse"}

null_check_exprs == {"IsNull", "IsNotNull", "StreamNullByRowCount"}

\* The signatures a loop of build_type_derive_map inserts.
BinarySigns(exprs, types1, types2) ==
    {new_binary(expr, t1, t2) : expr \in exprs, t1 \in types1, t2 \in types2}

\* The map after the six loops: an insert replaces the entry of its key, so
\* a later loop wins over an earlier one.
build_type_derive_map ==
    LET atm      == [sign \in BinarySigns(atm_exprs, num_types, num_types) |->
                        arithmetic_type_derive(sign.inputs_type[1], sign.inputs_type[2])]
        cmp_num  == [sign \in BinarySigns(cmp_exprs, num_types, num_types) |-> "Boolean"]
        cmp_bool == [sign \in BinarySigns(cmp_exprs, {"Boolean"}, {"Boolean"}) |-> "Boolean"]
        logical  == [sign \in BinarySigns(logical_exprs, {"Boolean"}, {"Boolean"}) |-> "Boolean"]
        bool_chk == [sign \in BinarySigns(bool_check_exprs, {"Boolean"}, {"Boolean"}) |->
                        "Boolean"]
        null_chk == [sign \in {new_unary(expr, t1) : expr \in null_check_exprs, t1 \in all_types}
                        |-> "Boolean"]
    IN  null_chk @@ bool_chk @@ logical @@ cmp_bool @@ cmp_num @@ atm

FUNC_SIG_MAP == build_type_derive_map

infer_type_name(func_type, inputs_type) ==
    IF FuncSign(func_type, inputs_type) \in DOMAIN FUNC_SIG_MAP
    THEN Some(FUNC_SIG_MAP[FuncSign(func_type, inputs_type)])
    ELSE None

infer_type(func_type, inputs_type) == infer_type_name(func_type, inputs_type)

\* The functions and the input lists of the calls.
FuncTypes == atm_exprs \cup cmp_exprs \cup logical_exprs \cup bool_check_exprs \cup null_check_exprs

InputLists == UNION {[1 .. n -> all_types] : n \in 0 .. MaxInputs}

(***************************************************************************)
(* StreamFragmentGraph (meta/src/stream/graph/fragment_graph.rs). The      *)
(* HashMaps are functions on the ids they hold; the StreamNode of a        *)
(* fragment is left out.                                                   *)
(***************************************************************************)
MaxFragmentId == 1
MaxLinks == 1

FragmentIds == 0 .. MaxFragmentId

\* FragmentType values a fragment is given.
FragmentTypes == {"Source", "Others"}

StreamFragment(fragment_id, fragment_type, is_singleton) ==
    [fragment_id |-> fragment_id, fragment_type |-> fragment_type,
     is_singleton |-> is_singleton]

\* The fragments StreamFragment::new and the setters can build.
StreamFragments ==
    {StreamFragment(id, ft, single) : id \in FragmentIds, ft \in FragmentTypes,
                                      single \in BOOLEAN}

\* None of Option<FragmentId> and of Option<StreamFragment>; Some(x) is
\* [some |-> TRUE, v |-> x].
NoId == [some |-> FALSE, v |-> 0]
NoFragment == [some |-> FALSE, v |-> StreamFragment(0, "Others", FALSE)]

\* StreamFragmentGraph::new
StreamFragmentGraph(fragment_id) ==
    [fragment_id |-> IF fragment_id.some THEN fragment_id.v ELSE 0,
     fragments |-> [x \in {} |-> NoFragment.v],
     child_edges |-> [x \in {} |-> {}]]

\* get_root_fragment: the unwrap panics when no fragment is stored under the
\* root id.
get_root_fragment(g) ==
    IF g.fragment_id \in DOMAIN g.fragments
    THEN [ret |-> "Ok", v |-> g.fragments[g.fragment_id]]
    ELSE [ret |-> "Panic", v |-> NoFragment.v]

\* add_fragment that never moves the root: C31 tells them apart.
add_fragment_KeepsRoot(g, stream_fragment, is_root) ==
    [g EXCEPT !.fragments = [x \in DOMAIN g.fragments \cup {stream_fragment.fragment_id} |->
                                IF x = stream_fragment.fragment_id THEN stream_fragment
                                ELSE g.fragments[x]]]

add_fragment(g, stream_fragment, is_root) ==
    LET g1 == IF is_root THEN [g EXCEPT !.fragment_id = stream_fragment.fragment_id] ELSE g
    IN  [g1 EXCEPT !.fragments =
            [x \in DOMAIN g.fragments \cup {stream_fragment.fragment_id} |->
                IF x = stream_fragment.fragment_id THEN stream_fragment ELSE g.fragments[x]]]

link_child(g, parent_id, child_id) ==
    [g EXCEPT !.child_edges =
        [x \in DOMAIN g.child_edges \cup {parent_id} |->
            IF x = parent_id
            THEN (IF parent_id \in DOMAIN g.child_edges THEN g.child_edges[parent_id] ELSE {})
                     \cup {child_id}
            ELSE g.child_edges[x]]]

get_fragment_type_by_id(g, fragment_id) ==
    IF fragment_id \notin DOMAIN g.fragments THEN [ret |-> "Err", v |-> ""]
    ELSE [ret |-> "Ok", v |-> g.fragments[fragment_id].fragment_type]

get_distribution_type_by_id(g, fragment_id) ==
    IF fragment_id \notin DOMAIN g.fragments THEN [ret |-> "Err", v |-> ""]
    ELSE [ret |-> "Ok",
          v |-> IF g.fragments[fragment_id].is_singleton THEN "Single" ELSE "Hash"]

\* A visible row of a batch.
RowOp(op, row) == [op |-> op, row |-> row, visible |-> TRUE]

Call(op, ret, out) == [op |-> op, ret |-> ret, out |-> out]

\* The managed state after create_managed_state.
InitManagedState ==
    /\ cache = EmptyMap
    /\ result = None
    /\ dirty = FALSE
    /\ total_count = 0
    /\ store = EmptyMap
    /\ write_batch = <<>>
    /\ flush_pending = FALSE
    /\ ckpt_count = 0
    /\ panicked = FALSE
    /\ last_call = Call("new", "Ok", None)
    /\ live = {}
    /\ durable = {}
    /\ hist = [inserts_only |-> TRUE, recovered |-> "no", lost_differs |-> FALSE]

\* An executor built over table t for the column ids of a plan.
InitExecutor(t, column_ids) ==
    /\ table = t
    /\ seq_scan_executor = SeqScanExecutor(column_ids)
    /\ scan_log = [returned |-> <<>>, calls |-> 0, nones |-> 0, reads |-> 0,
                   last_op |-> "new", last_ret |-> "Ok", last_out |-> NoChunk]

\* A call of infer_type that is about to be made.
InitInferCall(func_type, inputs_type) ==
    infer_call = [func |-> func_type, inputs_type |-> inputs_type, done |-> FALSE, ret |-> None]

\* A graph as new builds it, and the log of the calls on it: the id new was
\* given, the fragment each id was last added with, the fragment most
\* recently added with is_root = true, the number of link_child calls.
InitGraph(fragment_id) ==
    /\ fragment_graph = StreamFragmentGraph(fragment_id)
    /\ graph_log = [new_id |-> fragment_id, last |-> [x \in {} |-> NoFragment.v],
                    root |-> NoFragment, links |-> 0]

Init ==
    /\ InitManagedState
    /\ InitExecutor(TestTable, <<0>>)
    /\ InitInferCall("Add", <<"Int16", "Int32">>)
    /\ InitGraph(NoId)

SetState(t) ==
    /\ cache' = t.cache
    /\ result' = t.result
    /\ dirty' = t.dirty
    /\ total_count' = t.total_count

(***************************************************************************)
(* The calls, for given inputs. The caller hands a write batch that holds  *)
(* operations of this state to the store (or drops it with the state)      *)
(* before it calls apply_batch or get_output again.                        *)
(***************************************************************************)
\* The write batch holds operations of this state, or an empty flush of it.
OwnPending == flush_pending \/ OwnOps(write_batch) # {}

\* A panic unwinds through the caller: the state object is gone.
AfterCall(r) ==
    /\ panicked' = (r.ret = "Panic")
    /\ SetState(IF r.ret = "Panic" THEN new(0) ELSE r.s)

ApplyCall(batch, scan_ok, overflow_checks) ==
    LET r == apply_batch(S, store, batch, scan_ok, overflow_checks)
    IN  /\ ~panicked
        /\ ~OwnPending
        /\ r.s.total_count \in -1 .. MaxCount
        /\ last_call' = Call("apply_batch", r.ret, None)
        /\ AfterCall(r)
        /\ UNCHANGED <<store, write_batch, flush_pending>>
        /\ UNCHANGED <<scan_vars, infer_call, graph_vars>>

GetCall(scan_ok) ==
    LET r == get_output(S, store, scan_ok)
    IN  /\ ~panicked
        /\ ~OwnPending
        /\ last_call' = Call("get_output", r.ret, r.out)
        /\ AfterCall(r)
        /\ UNCHANGED <<store, write_batch, flush_pending>>
        /\ UNCHANGED <<scan_vars, infer_call, graph_vars>>

FlushCall(fail_at) ==
    LET r == flush(S, write_batch, fail_at)
    IN  /\ ~panicked
        /\ last_call' = Call("flush", r.ret, None)
        /\ SetState(r.s)
        /\ write_batch' = r.wb
        /\ flush_pending' = (flush_pending \/ (dirty /\ r.ret = "Ok"))
        /\ UNCHANGED <<store, panicked>>
        /\ UNCHANGED <<scan_vars, infer_call, graph_vars>>

\* The caller hands its write batch to the store.
IngestCall ==
    /\ ~panicked
    /\ write_batch # <<>> \/ flush_pending
    /\ store' = ingest_batch(store, write_batch)
    /\ write_batch' = <<>>
    /\ flush_pending' = FALSE
    /\ UNCHANGED <<cache, result, dirty, total_count, panicked, last_call>>
    /\ UNCHANGED <<scan_vars, infer_call, graph_vars>>

\* The state is dropped (a crash, or a shutdown) with the caller's write
\* batch, and created again over the same store.
RecoverCall(row_count) ==
    /\ SetState(new(row_count))
    /\ write_batch' = <<>>
    /\ flush_pending' = FALSE
    /\ panicked' = FALSE
    /\ last_call' = Call("new", "Ok", None)
    /\ UNCHANGED store
    /\ UNCHANGED <<scan_vars, infer_call, graph_vars>>

\* Another state that shares the store and the write batch flushes a put
\* under its own prefix.
OtherKey == <<OtherPrefix, 0, 0>>

OtherFlushCall ==
    /\ ~panicked
    /\ Len(write_batch) - Cardinality(OwnOps(write_batch)) < MaxOtherOps
    /\ write_batch' =
          Append(write_batch, <<OtherKey, SomeBytes(serialize_datum_not_null_into("abc"))>>)
    /\ UNCHANGED <<cache, result, dirty, total_count, store, flush_pending,
                   panicked, last_call>>
    /\ UNCHANGED <<scan_vars, infer_call, graph_vars>>

\* A persisted value of this keyspace is damaged in the store.
CorruptCall(x) ==
    /\ Cardinality({y \in OwnKeys(store) : ~DecodeOk(store[y])}) < MaxCorrupt
    /\ DecodeOk(store[x])
    /\ store' = [store EXCEPT ![x] = CorruptBytes]
    /\ UNCHANGED <<cache, result, dirty, total_count, write_batch, flush_pending,
                   panicked, last_call>>
    /\ UNCHANGED <<scan_vars, infer_call, graph_vars>>

(***************************************************************************)
(* Spec: the state under a stream in which every insert targets a row that *)
(* is not live and every delete a live row, re-created with the row count  *)
(* of the last checkpoint, with a store and a serializer that do not fail. *)
(***************************************************************************)
ApplyBatch ==
    \E batch \in Batches :
        LET vis == VisibleRows(batch)
        IN  /\ Disciplined(live, vis)
            /\ ApplyCall(batch, TRUE, TRUE)
            /\ live' = LiveAfter(live, vis)
            /\ hist' = [hist EXCEPT
                          !.inserts_only =
                              @ /\ \A i \in 1 .. Len(batch) :
                                       batch[i].visible /\ batch[i].op = "Insert",
                          !.recovered = IF vis = <<>> THEN @ ELSE "no"]
            /\ UNCHANGED <<durable, ckpt_count>>

GetOutput ==
    /\ GetCall(TRUE)
    /\ UNCHANGED <<live, durable, hist, ckpt_count>>

Flush ==
    /\ FlushCall(0)
    /\ hist' = [hist EXCEPT !.inserts_only = FALSE]
    /\ UNCHANGED <<live, durable, ckpt_count>>

\* With a flush of this state in the batch, the caller persists the state's
\* row count with the checkpoint.
Ingest ==
    /\ IngestCall
    /\ ckpt_count' = IF flush_pending THEN total_count ELSE ckpt_count
    /\ durable' = IF flush_pending THEN live ELSE durable
    /\ UNCHANGED <<live, hist>>

Recover ==
    /\ RecoverCall(ckpt_count)
    /\ live' = durable
    /\ hist' = [inserts_only |-> FALSE,
                recovered |-> IF dirty \/ flush_pending THEN "unflushed" ELSE "flushed",
                lost_differs |-> (dirty /\ get_output(S, store, TRUE).out
                                                # AbstractOutput(durable))]
    /\ UNCHANGED <<durable, ckpt_count>>

OtherFlush ==
    /\ OtherFlushCall
    /\ hist' = [hist EXCEPT !.inserts_only = FALSE]
    /\ UNCHANGED <<live, durable, ckpt_count>>

Next ==
    \/ ApplyBatch
    \/ GetOutput
    \/ Flush
    \/ Ingest
    \/ Recover
    \/ OtherFlush

Spec == Init /\ [][Next]_vars

(***************************************************************************)
(* SpecFaults: the same stream and the same re-creation, with a store whose *)
(* scan can fail, persisted values that can be damaged and a serializer    *)
(* that can fail.                                                          *)
(***************************************************************************)
ScanOutcomes == IF NeedsLoad(S) /\ CacheLen(S) = 0 /\ ~dirty THEN BOOLEAN ELSE {TRUE}

ApplyBatchFaulty ==
    \E batch \in Batches :
        LET vis == VisibleRows(batch)
        IN  /\ Disciplined(live, vis)
            /\ \E scan_ok \in ScanOutcomes :
                  /\ ApplyCall(batch, scan_ok, TRUE)
                  /\ live' = IF last_call'.ret = "Ok" THEN LiveAfter(live, vis) ELSE live
                  /\ hist' = [hist EXCEPT
                                !.inserts_only = FALSE,
                                !.recovered = IF vis = <<>> THEN @ ELSE "no"]
            /\ UNCHANGED <<durable, ckpt_count>>

GetOutputFaulty ==
    /\ \E scan_ok \in BOOLEAN : GetCall(scan_ok)
    /\ UNCHANGED <<live, durable, hist, ckpt_count>>

FlushFaulty ==
    /\ \E fail_at \in 0 .. (IF dirty THEN CacheLen(S) ELSE 0) : FlushCall(fail_at)
    /\ hist' = [hist EXCEPT !.inserts_only = FALSE]
    /\ UNCHANGED <<live, durable, ckpt_count>>

CorruptValue ==
    /\ \E x \in OwnKeys(store) : CorruptCall(x)
    /\ UNCHANGED <<live, durable, hist, ckpt_count>>

NextFaults ==
    \/ ApplyBatchFaulty
    \/ GetOutputFaulty
    \/ FlushFaulty
    \/ Ingest
    \/ Recover
    \/ CorruptValue

SpecFaults == Init /\ [][NextFaults]_vars

(***************************************************************************)
(* SpecAny: any batch (inserts of live rows, deletes of rows that are not  *)
(* live), a build with or without overflow checks, re-creation with any    *)
(* row count, and the faults.                                              *)
(***************************************************************************)
Unobserved == UNCHANGED <<live, durable, hist, ckpt_count>>

ApplyBatchAny ==
    /\ \E batch \in AnyBatches :
       \E scan_ok \in ScanOutcomes :
       \E overflow_checks \in (IF total_count < Len(batch) THEN BOOLEAN ELSE {TRUE}) :
          ApplyCall(batch, scan_ok, overflow_checks)
    /\ Unobserved

GetOutputAny ==
    /\ \E scan_ok \in BOOLEAN : GetCall(scan_ok)
    /\ Unobserved

FlushAny ==
    /\ \E fail_at \in 0 .. (IF dirty THEN CacheLen(S) ELSE 0) : FlushCall(fail_at)
    /\ Unobserved

IngestAny ==
    /\ IngestCall
    /\ Unobserved

RecoverAny ==
    /\ \E row_count \in 0 .. MaxCount : RecoverCall(row_count)
    /\ Unobserved

CorruptAny ==
    /\ \E x \in OwnKeys(store) : CorruptCall(x)
    /\ Unobserved

NextAny ==
    \/ ApplyBatchAny
    \/ GetOutputAny
    \/ FlushAny
    \/ IngestAny
    \/ RecoverAny
    \/ CorruptAny

SpecAny == Init /\ [][NextAny]_vars

(***************************************************************************)
(* SpecScenario: the rows of the test, in the test's order, applied in      *)
(* batches of up to ScenarioChunk rows, with get_output, flush, ingest and  *)
(* re-creation at any point between the batches.                           *)
(***************************************************************************)
ScenarioChunk == 3

ScenarioRow(id) == <<StrOf(id), id>>

Script ==
    << RowOp("Insert", ScenarioRow(0)), RowOp("Insert", ScenarioRow(1)),
       RowOp("Insert", ScenarioRow(2)),
       RowOp("Insert", ScenarioRow(3)), RowOp("Delete", ScenarioRow(0)),
       RowOp("Insert", ScenarioRow(4)),
       RowOp("Delete", ScenarioRow(3)), RowOp("Delete", ScenarioRow(1)),
       RowOp("Delete", ScenarioRow(4)) >>

\* The live rows after the first n rows of the script; they tell n.
LiveAt(n) == LiveAfter({}, SubSeq(Script, 1, n))

ScenarioPos == CHOOSE n \in 0 .. Len(Script) : live = LiveAt(n)

ScenarioApply ==
    \E n \in 1 .. ScenarioChunk :
        LET batch == SubSeq(Script, ScenarioPos + 1, ScenarioPos + n)
            r == apply_batch(S, store, batch, TRUE, TRUE)
        IN  /\ ScenarioPos + n <= Len(Script)
            /\ ~panicked
            /\ ~OwnPending
            /\ last_call' = Call("apply_batch", r.ret, None)
            /\ AfterCall(r)
            /\ live' = LiveAfter(live, batch)
            /\ hist' = [hist EXCEPT !.inserts_only = FALSE, !.recovered = "no"]
            /\ UNCHANGED <<store, write_batch, flush_pending, durable, ckpt_count>>
            /\ UNCHANGED <<scan_vars, infer_call, graph_vars>>

NextScenario ==
    \/ ScenarioApply
    \/ GetOutput
    \/ Flush
    \/ Ingest
    \/ Recover

SpecScenario == Init /\ [][NextScenario]_vars

(***************************************************************************)
(* SpecSeqScan: an executor over any table of the bounds and any list of   *)
(* the table's column ids, called in any order. The managed state is not   *)
(* touched.                                                                *)
(***************************************************************************)
agg_vars == <<cache, result, dirty, total_count, store, write_batch, flush_pending,
              ckpt_count, panicked, last_call, live, durable, hist>>

InitSeqScan ==
    /\ InitManagedState
    /\ InitGraph(NoId)
    /\ InitInferCall("Add", <<"Int16", "Int32">>)
    /\ \E t \in Tables : \E column_ids \in ColumnIdLists(t) : InitExecutor(t, column_ids)

\* open and close only log (lines 80-83 and 120-123).
ScanOpen ==
    /\ scan_log.last_ret # "Panic"
    /\ scan_log.last_op # "open"
    /\ scan_log' = [scan_log EXCEPT !.last_op = "open"]
    /\ UNCHANGED <<table, seq_scan_executor>>
    /\ UNCHANGED <<agg_vars, infer_call, graph_vars>>

ScanNext ==
    \E eof \in BOOLEAN :
        LET r == next(seq_scan_executor, table, eof)
        IN  /\ scan_log.last_ret # "Panic"
            /\ scan_log.nones < MaxNones
            /\ seq_scan_executor' = r.s
            /\ scan_log' =
                  [returned |-> IF r.out.some THEN Append(scan_log.returned, r.out.v)
                                ELSE scan_log.returned,
                   calls |-> scan_log.calls + 1,
                   nones |-> IF r.ret = "Ok" /\ ~r.out.some THEN scan_log.nones + 1
                             ELSE scan_log.nones,
                   reads |-> IF r.read THEN scan_log.reads + 1 ELSE scan_log.reads,
                   last_op |-> "next", last_ret |-> r.ret, last_out |-> r.out]
            /\ UNCHANGED table
            /\ UNCHANGED <<agg_vars, infer_call, graph_vars>>

ScanClose ==
    /\ scan_log.last_ret # "Panic"
    /\ scan_log.last_op # "close"
    /\ scan_log' = [scan_log EXCEPT !.last_op = "close"]
    /\ UNCHANGED <<table, seq_scan_executor>>
    /\ UNCHANGED <<agg_vars, infer_call, graph_vars>>

NextSeqScan ==
    \/ ScanOpen
    \/ ScanNext
    \/ ScanClose

SpecSeqScan == InitSeqScan /\ [][NextSeqScan]_vars

(***************************************************************************)
(* SpecInferType: one call of infer_type, for any function of the map and  *)
(* any list of input types of the bounds.                                  *)
(***************************************************************************)
InitInferType ==
    /\ InitManagedState
    /\ InitGraph(NoId)
    /\ InitExecutor(TestTable, <<0>>)
    /\ \E func_type \in FuncTypes : \E inputs_type \in InputLists :
          InitInferCall(func_type, inputs_type)

InferType ==
    /\ ~infer_call.done
    /\ infer_call' = [infer_call EXCEPT !.done = TRUE,
                                        !.ret = infer_type(infer_call.func, infer_call.inputs_type)]
    /\ UNCHANGED <<agg_vars, scan_vars, graph_vars>>

NextInferType == InferType

SpecInferType == InitInferType /\ [][NextInferType]_vars

(***************************************************************************)
(* SpecFragmentGraph: a graph built with or without a root id, and any     *)
(* add_fragment and link_child calls on it.                                *)
(***************************************************************************)
InitFragmentGraph ==
    /\ InitManagedState
    /\ InitExecutor(TestTable, <<0>>)
    /\ InitInferCall("Add", <<"Int16", "Int32">>)
    /\ \E fragment_id \in {NoId} \cup {[some |-> TRUE, v |-> id] : id \in FragmentIds} : InitGraph(fragment_id)

AddFragment ==
    \E stream_fragment \in StreamFragments : \E is_root \in BOOLEAN :
        /\ fragment_graph' = add_fragment(fragment_graph, stream_fragment, is_root)
        /\ graph_log' = [graph_log EXCEPT
                            !.last = [x \in DOMAIN @ \cup {stream_fragment.fragment_id} |->
                                         IF x = stream_fragment.fragment_id
                                         THEN stream_fragment ELSE @[x]],
                            !.root = IF is_root THEN [some |-> TRUE, v |-> stream_fragment]
                                     ELSE @]
        /\ UNCHANGED <<agg_vars, scan_vars, infer_call>>

LinkChild ==
    \E parent_id \in FragmentIds : \E child_id \in FragmentIds :
        /\ graph_log.links < MaxLinks
        /\ fragment_graph' = link_child(fragment_graph, parent_id, child_id)
        /\ graph_log' = [graph_log EXCEPT !.links = @ + 1]
        /\ UNCHANGED <<agg_vars, scan_vars, infer_call>>

NextFragmentGraph ==
    \/ AddFragment
    \/ LinkChild

SpecFragmentGraph == InitFragmentGraph /\ [][NextFragmentGraph]_vars

(***************************************************************************)
(* The properties.                                                          *)
(***************************************************************************)
\* The state after a step, as one record.
SNext ==
    [cache |-> cache', result |-> result', dirty |-> dirty', total_count |-> total_count']


\* A step of apply_batch: apply_batch is the last call after it, and it is
\* neither the caller's ingest nor the flush of another state.
ApplyStep == last_call'.op = "apply_batch" /\ ~IngestCall /\ ~OtherFlushCall

\* C1: under a stream in which every visible insert targets a row that is not
\* live and every visible delete a live row, with get_output calls and flush
\* followed by ingest interleaved in any way, every get_output returns Ok with
\* the delimiter-join of the values of exactly the live rows in Sort Key
\* order, and None when no row is live.
C1_RefinesOrderedMap ==
    last_call.op = "get_output" =>
        /\ last_call.ret = "Ok"
        /\ last_call.out = AbstractOutput(live)

\* C1 witness: get_output has answered from a dirty state whose cache holds a
\* loaded row, a tombstone of a persisted row and a row of this epoch.
C1_Witness ==
    /\ last_call.op = "get_output"
    /\ dirty
    /\ live # {} /\ durable # {} /\ live # durable
    /\ last_call.out = AbstractOutput(live)
    /\ last_call.out.some

\* C2 (P1): after nothing but apply_batch calls of visible Insert rows with
\* distinct Sort Keys, in any order and split into any batches, get_output is
\* the delimiter-join of the values of the inserted rows in Sort Key order: a
\* function of the set of rows alone.
C2_InsertOrderIndependent ==
    (hist.inserts_only /\ last_call.op = "get_output") =>
        LET ks == Ascending({order_based_scehmaed_serialize(r) : r \in live})
            RowOf(k) == CHOOSE r \in live : order_based_scehmaed_serialize(r) = k
        IN  /\ last_call.ret = "Ok"
            /\ last_call.out =
                  IF live = {} THEN None
                  ELSE Some(Join([i \in 1 .. Len(ks) |-> RowOf(ks[i])[value_index]],
                                 delimiter))

\* C2 witness: every row has been inserted, by inserts alone, and get_output
\* has returned the join of them all.
C2_Witness ==
    /\ hist.inserts_only
    /\ last_call.op = "get_output"
    /\ live = Rows
    /\ last_call.out.some

\* C3 (P3): from any reachable state, with the write batch of a flush ingested,
\* a fresh state over the same store with the same total_count returns from
\* get_output exactly what the old state returned before the flush.
C3_CrashRecoveryRoundTrip ==
    [][FlushCall(0) =>
          LET old == get_output(S, store, TRUE)
              ingested == ingest_batch(store, write_batch')
              fresh == get_output(new(total_count'), ingested, TRUE)
          IN  /\ old.ret = "Ok"
              /\ fresh.ret = "Ok"
              /\ fresh.out = old.out]_vars

\* C3 witness: a state has been flushed, its write batch ingested, the state
\* re-created with the same row count, and get_output has answered with rows.
C3_Witness ==
    /\ hist.recovered = "flushed"
    /\ last_call.op = "get_output"
    /\ durable # {}
    /\ last_call.out = AbstractOutput(durable)
    /\ OwnKeys(store) # {}

\* C4 (P4): a state re-created after it was dropped with changes that were not
\* flushed and ingested, with the row count of the last checkpoint, returns
\* from get_output the result as of that checkpoint; and no apply_batch call
\* changes the store or the write batch.
C4_NoFlushNoPersist ==
    [][/\ (GetCall(TRUE) /\ hist.recovered = "unflushed") =>
              /\ last_call'.ret = "Ok"
              /\ last_call'.out = AbstractOutput(durable)
       /\ ApplyStep =>
              /\ store' = store
              /\ write_batch' = write_batch]_vars

\* C4 witness: the state dropped was dirty and its in-memory result differed
\* from the checkpoint's; the re-created state has answered get_output.
C4_Witness ==
    /\ hist.recovered = "unflushed"
    /\ hist.lost_differs
    /\ last_call.op = "get_output"
    /\ last_call.out = AbstractOutput(durable)
    /\ durable # {}

\* The cache apply_batch merges its rows into: loaded first when it must be.
MergeView(s, st) == IF NeedsLoad(s) THEN read_all_into_memory(s, st, TRUE).s ELSE s

HasOpFor(wb, k) == \E i \in 1 .. Len(wb) : wb[i][1] = prefixed_key(k)

\* C5 (P2): from every reachable state, inserting a row whose Sort Key has no
\* cache entry and then deleting it, in the same batch or in the next one,
\* leaves no operation for that key in the write batch of the next flush, and
\* get_output after the delete equals get_output before the insert.
C5_InsertDeleteCancels ==
    (~panicked /\ ~OwnPending) =>
        \A row \in Rows :
            LET k == order_based_scehmaed_serialize(row)
                before == get_output(S, store, TRUE)
                one == apply_batch(S, store,
                                   <<RowOp("Insert", row), RowOp("Delete", row)>>,
                                   TRUE, TRUE)
                ins == apply_batch(S, store, <<RowOp("Insert", row)>>, TRUE, TRUE)
                two == apply_batch(ins.s, store, <<RowOp("Delete", row)>>, TRUE, TRUE)
            IN  k \notin DOMAIN MergeView(S, store).cache =>
                    \A r \in {one, two} :
                        /\ r.ret = "Ok"
                        /\ ~HasOpFor(flush(r.s, <<>>, 0).wb, k)
                        /\ get_output(r.s, store, TRUE).out = before.out

\* C5 witness: apply_batch has merged a row into an empty cache over an empty
\* keyspace and deleted it again: the state is dirty, the cache has no entry,
\* and the flush to come adds nothing to the write batch.
C5_Witness ==
    /\ last_call.op = "apply_batch"
    /\ last_call.ret = "Ok"
    /\ dirty
    /\ cache = EmptyMap
    /\ total_count = 0
    /\ flush(S, write_batch, 0).wb = write_batch

C7_AllOrNothingResidency ==
    (~panicked /\ ~dirty) => (CacheLen(S) = 0 \/ CacheLen(S) = total_count)

\* A successful apply_batch has left the state dirty: it has merged a visible
\* row, or rows merged since the last flush are in the cache.
ApplyMerged == ApplyStep /\ last_call'.ret = "Ok" /\ dirty'

\* C8 (I2): when apply_batch has merged a visible row, the cache holds an
\* entry for every key persisted under the prefix, a DeleteInsert or (the row
\* deleted) a Delete tombstone; a persisted row the batch deleted is a Delete
\* tombstone, is gone from get_output, and flush and ingest leave in the store
\* exactly the live rows.
C8_LoadBeforeMutate ==
    [][ApplyMerged =>
          /\ \A x \in OwnKeys(store) :
                /\ Tail(x) \in DOMAIN cache'
                /\ cache'[Tail(x)].tag \in {"DeleteInsert", "Delete"}
          /\ \A row \in live \ live' :
                LET k == order_based_scehmaed_serialize(row)
                IN  prefixed_key(k) \in DOMAIN store => cache'[k] = Delete
          /\ get_output(SNext, store, TRUE).out = AbstractOutput(live')
          /\ OwnKeys(ingest_batch(store, flush(SNext, write_batch, 0).wb))
                = {prefixed_key(order_based_scehmaed_serialize(row)) : row \in live'}]_vars

\* C8 witness: after a re-creation over two persisted rows, apply_batch has
\* deleted one: its entry is a Delete tombstone, the other is a DeleteInsert.
C8_Witness ==
    /\ last_call.op = "apply_batch"
    /\ last_call.ret = "Ok"
    /\ Cardinality(OwnKeys(store)) = 2
    /\ total_count = 1
    /\ \E k \in DOMAIN cache : cache[k] = Delete /\ prefixed_key(k) \in DOMAIN store
    /\ \E k \in DOMAIN cache : cache[k].tag = "DeleteInsert"

\* C9 as claimed: after every flush call that returns successfully, whether
\* the state was dirty or clean before the call, the cache is empty and dirty
\* is false.
C9_FlushAlwaysEmptiesCache ==
    (last_call.op = "flush" /\ last_call.ret = "Ok") => (cache = EmptyMap /\ ~dirty)

\* C9 as amended: a flush call that returns successfully leaves dirty false; it
\* leaves the cache empty when the state was dirty before the call, and leaves
\* the cache as it was (empty, or fully loaded) when the state was clean.
C9_FlushEmptiesDirtyCache ==
    [][FlushCall(0) =>
          /\ last_call'.ret = "Ok"
          /\ ~dirty'
          /\ dirty => cache' = EmptyMap
          /\ ~dirty => cache' = cache]_vars

\* C9 witness: a clean state with a loaded cache has been flushed, the call
\* returned Ok, and the cache still holds its entries.
C9_Witness ==
    /\ last_call.op = "flush"
    /\ last_call.ret = "Ok"
    /\ ~dirty
    /\ cache # EmptyMap

\* C10: a successful flush of a dirty state leaves the operations already in
\* the write batch as they were and appends exactly one operation per cache
\* entry, one per key: a put of the prefixed key with the encoded value for an
\* Insert or DeleteInsert entry, a deletion of the prefixed key for a Delete.
C10_FlushOnePerEntry ==
    [][(dirty /\ FlushCall(0)) =>
          LET n == Len(write_batch)
              m == Cardinality(DOMAIN cache)
          IN  /\ Len(write_batch') = n + m
              /\ SubSeq(write_batch', 1, n) = write_batch
              /\ \A k \in DOMAIN cache :
                    \E i \in n + 1 .. n + m :
                        /\ write_batch'[i][1] = <<Prefix>> \o k
                        /\ write_batch'[i][2] =
                              IF cache[k].tag = "Delete" THEN NoBytes
                              ELSE SomeBytes(serialize_datum_not_null_into(cache[k].v))
                        /\ \A j \in n + 1 .. n + m :
                              write_batch'[j][1] = write_batch'[i][1] => j = i]_vars

\* C10 witness: a flush has appended a put and a deletion of this state behind
\* an operation of another state that was in the write batch before.
C10_Witness ==
    /\ last_call.op = "flush"
    /\ last_call.ret = "Ok"
    /\ Len(write_batch) = 3
    /\ write_batch[1][1] = OtherKey
    /\ \E i, j \in 2 .. 3 :
          /\ write_batch[i][1][1] = Prefix /\ write_batch[i][2] = NoBytes
          /\ write_batch[j][1][1] = Prefix /\ write_batch[j][2].some

\* The rows whose presence differs between the state and the store: the keys
\* with a net change since the cache was loaded or flushed.
NetChanged ==
    {row \in Rows :
        (row \in live) # (prefixed_key(order_based_scehmaed_serialize(row)) \in DOMAIN store)}

\* C11 as claimed: a flush appends no more operations than there are keys
\* whose net state changed since the cache was last loaded or flushed; a key
\* loaded from storage and not touched since contributes no write.
C11_MinimalWrites ==
    (~panicked /\ dirty) =>
        /\ Len(flush(S, <<>>, 0).wb) <= Cardinality(NetChanged)
        /\ \A row \in Rows \ NetChanged :
              ~HasOpFor(flush(S, <<>>, 0).wb, order_based_scehmaed_serialize(row))

\* C12 as claimed: after a flush of a dirty state that failed in serialization
\* the state is still dirty and its cache still holds the pending entries.
C12_FailedFlushKeepsCache ==
    (last_call.op = "flush" /\ last_call.ret = "SerializeError") =>
        (dirty /\ cache # EmptyMap)

\* C13 as claimed: after a flush that failed in serialization the caller's
\* write batch holds none of that flush's operations.
C13_FailedFlushPushesNothing ==
    (last_call.op = "flush" /\ last_call.ret = "SerializeError") =>
        OwnOps(write_batch) = {}

\* A cache made of entries as the load leaves them.
OnlyLoaded(c) == \A k \in DOMAIN c : c[k].tag = "DeleteInsert"

\* C14: from every state in which apply_batch can be called, a batch has the
\* outcome (return value, total_count, dirty, memoized result, cache) of the
\* batch with its hidden rows removed; and a batch with no visible row leaves
\* total_count, dirty and the memoized result as they were and the cache as
\* it was or, from a clean state with an empty cache, as the load leaves it,
\* so that a flush after it appends what a flush before it would.
C14_InvisibleRowsSkipped ==
    (~panicked /\ ~OwnPending) =>
        \A batch \in Batches :
            LET r == apply_batch(S, store, batch, TRUE, TRUE)
                v == apply_batch(S, store, VisibleRows(batch), TRUE, TRUE)
            IN  /\ r = v
                /\ VisibleRows(batch) = <<>> =>
                      /\ r.ret = "Ok"
                      /\ r.s.total_count = total_count
                      /\ r.s.dirty = dirty
                      /\ r.s.result = result
                      /\ \/ r.s.cache = cache
                         \/ ~dirty /\ cache = EmptyMap /\ OnlyLoaded(r.s.cache)
                      /\ flush(r.s, write_batch, 0).wb = flush(S, write_batch, 0).wb

\* C14 witness: apply_batch has returned from a batch of hidden rows only (the
\* state is clean after it) over persisted rows, which it has loaded; with
\* the rows visible the batch would have changed the state.
C14_Witness ==
    /\ last_call.op = "apply_batch"
    /\ last_call.ret = "Ok"
    /\ ~dirty
    /\ total_count > 0
    /\ cache # EmptyMap
    /\ \E batch \in Batches :
          /\ VisibleRows(batch) = <<>>
          /\ apply_batch(S, store, batch, TRUE, TRUE).s = S
          /\ apply_batch(S, store, [i \in 1 .. Len(batch) |-> [batch[i] EXCEPT !.visible = TRUE]],
                         TRUE, TRUE).s # S

\* The entry of key k in cache c, NoEntry when it has none.
NoEntry == [tag |-> "NoEntry", v |-> ""]

EntryOf(c, k) == IF k \in DOMAIN c THEN c[k] ELSE NoEntry

\* The batch of the given change kinds, all for one row, all visible.
OpsOnRow(ops, row) == [i \in 1 .. Len(ops) |-> RowOp(ops[i], row)]

\* C15: in every state in which apply_batch can be called, for every row and
\* in a build with or without overflow checks, a batch of rows for the row's
\* Sort Key that returns Ok has merged them in the order given: over no
\* entry, Insert then Delete leaves no entry, Delete then Insert leaves
\* DeleteInsert(v) and Delete leaves Delete; Insert over Delete leaves
\* DeleteInsert(v); Delete over DeleteInsert leaves Delete; and the batch with
\* UpdateInsert for Insert and UpdateDelete for Delete has the same outcome.
\* Without overflow checks every such batch returns Ok.
C15_MergedInOrder ==
    (~panicked /\ ~OwnPending /\ apply_batch(S, store, <<>>, TRUE, TRUE).ret = "Ok") =>
        \A row \in Rows : \A overflow_checks \in BOOLEAN :
            LET k == order_based_scehmaed_serialize(row)
                v == row[value_index]
                e0 == EntryOf(apply_batch(S, store, <<>>, TRUE, TRUE).s.cache, k)
                Run(ops) == apply_batch(S, store, OpsOnRow(ops, row), TRUE, overflow_checks)
                After(ops) == EntryOf(Run(ops).s.cache, k)
                Holds(ops, e) == /\ Run(ops).ret \in {"Ok", "Panic"}
                                 /\ ~overflow_checks => Run(ops).ret = "Ok"
                                 /\ Run(ops).ret = "Ok" => After(ops) = e
                Upd(op) == IF op = "Insert" THEN "UpdateInsert" ELSE "UpdateDelete"
            IN  /\ e0 = NoEntry =>
                      /\ Holds(<<"Insert", "Delete">>, NoEntry)
                      /\ Holds(<<"Delete", "Insert">>, DeleteInsert(v))
                      /\ Holds(<<"Delete">>, Delete)
                /\ e0 = Delete => Holds(<<"Insert">>, DeleteInsert(v))
                /\ e0.tag = "DeleteInsert" => Holds(<<"Delete">>, Delete)
                /\ \A ops \in {<<"Insert", "Delete">>, <<"Delete", "Insert">>,
                               <<"Insert">>, <<"Delete">>} :
                      Run([i \in 1 .. Len(ops) |-> Upd(ops[i])]) = Run(ops)

\* C15 witness: apply_batch has deleted a key that had no entry and is not in
\* the store, leaving a Delete tombstone; and for a row without an entry,
\* Delete then Insert in one batch gives DeleteInsert.
C15_Witness ==
    /\ last_call.op = "apply_batch"
    /\ last_call.ret = "Ok"
    /\ ~OwnPending
    /\ \E k \in DOMAIN cache : cache[k] = Delete /\ prefixed_key(k) \notin DOMAIN store
    /\ \E row \in Rows :
          /\ order_based_scehmaed_serialize(row) \notin DOMAIN cache
          /\ EntryOf(apply_batch(S, store, OpsOnRow(<<"Delete", "Insert">>, row), TRUE, FALSE).s.cache,
                     order_based_scehmaed_serialize(row)) = DeleteInsert(row[value_index])

\* The store as it would be had no other state written to it.
WithoutOthers(st) == [x \in OwnKeys(st) |-> st[x]]

C17_Scenarios ==
    last_call.op = "get_output" =>
        /\ last_call.ret = "Ok"
        /\ ScenarioPos = 3 => last_call.out = Some("ghi||def||abc")
        /\ ScenarioPos = 6 => last_call.out = Some("ghi||def||def||abc")
        /\ ScenarioPos = 9 => last_call.out = Some("ghi")
        /\ (ScenarioPos = 9 /\ hist.recovered = "flushed") => total_count = 1

\* C17 witness: the scenario has run to its end, the state has been flushed,
\* ingested and re-created with row count 1, and get_output has returned "ghi".
C17_Witness ==
    /\ ScenarioPos = 9
    /\ hist.recovered = "flushed"
    /\ last_call.op = "get_output"
    /\ last_call.out = Some("ghi")
    /\ total_count = 1
    /\ ckpt_count = 1

\* C18: in every state in which it can be called get_output, whether its scan
\* succeeds or fails, leaves dirty and total_count as they were, leaves the
\* cache of a dirty state as it was and the cache of a clean state as it was
\* or loaded; with a working
\* store it returns Ok, a flush after it appends what a flush before it would,
\* a second get_output returns the same and changes nothing more, and after
\* any next batch of the stream the return value, the get_output result and
\* the flush are the same as without the call.
C18_GetOutputObserves ==
    (~panicked /\ ~OwnPending) =>
        /\ \A scan_ok \in BOOLEAN :
              LET r == get_output(S, store, scan_ok)
              IN  /\ r.s.dirty = dirty
                  /\ r.s.total_count = total_count
                  /\ dirty => r.s.cache = cache
                  /\ ~dirty => \/ r.s.cache = cache
                               \/ cache = EmptyMap /\ OnlyLoaded(r.s.cache)
        /\ LET r == get_output(S, store, TRUE)
               again == get_output(r.s, store, TRUE)
           IN  /\ r.ret = "Ok"
               /\ flush(r.s, write_batch, 0).wb = flush(S, write_batch, 0).wb
               /\ again.out = r.out
               /\ again.s = r.s
               /\ \A batch \in BatchesOf(1) :
                     Disciplined(live, VisibleRows(batch)) =>
                         LET without == apply_batch(S, store, batch, TRUE, TRUE)
                             with == apply_batch(r.s, store, batch, TRUE, TRUE)
                         IN  /\ with.ret = without.ret
                             /\ get_output(with.s, store, TRUE).out
                                   = get_output(without.s, store, TRUE).out
                             /\ flush(with.s, <<>>, 0).wb = flush(without.s, <<>>, 0).wb

\* C18 witness: get_output has been called on a dirty state with pending
\* entries over persisted rows and has returned a string; the state is still
\* dirty and its flush has operations to write.
C18_Witness ==
    /\ last_call.op = "get_output"
    /\ last_call.out.some
    /\ dirty
    /\ result = last_call.out
    /\ OwnKeys(store) # {}
    /\ Len(flush(S, <<>>, 0).wb) = Cardinality(DOMAIN cache)
    /\ cache # EmptyMap

\* C19: in every state a flush, successful or failing in serialization, leaves
\* total_count as it was; and a flush of a clean state returns Ok, appends
\* nothing to the write batch and leaves cache, dirty and the memoized result
\* as they were.
C19_FlushFrame ==
    ~panicked =>
        /\ \A fail_at \in 0 .. CacheLen(S) :
              flush(S, write_batch, fail_at).s.total_count = total_count
        /\ ~dirty => flush(S, write_batch, 0) = [s |-> S, wb |-> write_batch, ret |-> "Ok"]

\* C19 witness: a flush has been called on a clean state with a loaded cache
\* and a memoized result and has left them, and total_count, in place.
C19_Witness ==
    /\ last_call.op = "flush"
    /\ last_call.ret = "Ok"
    /\ ~dirty
    /\ ~flush_pending
    /\ result.some
    /\ total_count = Cardinality(DOMAIN cache)
    /\ total_count > 0

\* The chunk as the plan asks for it: column j of the output is the table's
\* column whose id is the j-th requested id.
Projected(t, column_ids, chunk) ==
    [j \in 1 .. Len(column_ids) |->
        chunk[CHOOSE i \in 1 .. Len(t.column_ids) : t.column_ids[i] = column_ids[j]]]

PromotionOrder == <<"Int16", "Int32", "Int64", "Float32", "Float64", "Decimal">>

PromotionRank(t) == CHOOSE i \in 1 .. Len(PromotionOrder) : PromotionOrder[i] = t

\* C21: a call of infer_type on an arithmetic operator with two numeric input
\* types has returned the higher of the two in the promotion order Int16 <
\* Int32 < Int64 < Float32 < Float64 < Decimal; the call with the inputs
\* swapped returns the same, and the call with twice the same type that type.
C21_ArithmeticPromotes ==
    LET f  == infer_call.func
        t1 == infer_call.inputs_type[1]
        t2 == infer_call.inputs_type[2]
    IN  (/\ infer_call.done
         /\ f \in {"Add", "Subtract", "Multiply", "Divide", "Modulus"}
         /\ Len(infer_call.inputs_type) = 2
         /\ {t1, t2} \subseteq {PromotionOrder[i] : i \in 1 .. Len(PromotionOrder)}) =>
            /\ infer_call.ret = Some(IF PromotionRank(t1) >= PromotionRank(t2) THEN t1 ELSE t2)
            /\ infer_type(f, <<t2, t1>>) = infer_call.ret
            /\ infer_type(f, <<t1, t1>>) = Some(t1)

\* C21 witness: Modulus of a Decimal and an Int16 has been inferred as Decimal,
\* the first of its inputs and the higher one.
C21_Witness ==
    /\ infer_call.done
    /\ infer_call.func = "Modulus"
    /\ infer_call.inputs_type = <<"Decimal", "Int16">>
    /\ infer_call.ret = Some("Decimal")

\* C22: a call of infer_type on an arithmetic, comparison or logical operator
\* with the inputs [numeric type, Boolean] has returned None; and any call has
\* returned a type exactly when its signature is registered in the lookup
\* table, None otherwise. The registered signatures are spelt out: arithmetic
\* and comparison over two numeric types, comparison, logical and boolean-check
\* functions over two Booleans, null checks over one type.
C22_UnregisteredIsNone ==
    LET Num == {"Int16", "Int32", "Int64", "Float32", "Float64", "Decimal"}
        Cmp == {"Equal", "NotEqual", "LessThan", "LessThanOrEqual", "GreaterThan",
                "GreaterThanOrEqual"}
        Registered(f, ins) ==
            \/ /\ Len(ins) = 2
               /\ f \in {"Add", "Subtract", "Multiply", "Divide", "Modulus"} \cup Cmp
               /\ ins[1] \in Num /\ ins[2] \in Num
            \/ /\ ins = <<"Boolean", "Boolean">>
               /\ f \in Cmp \cup {"And", "Or", "Not", "IsTrue", "IsNotTrue", "IsFalse",
                                  "IsNotFalse"}
            \/ /\ Len(ins) = 1
               /\ f \in {"IsNull", "IsNotNull", "StreamNullByRowCount"}
    IN
    infer_call.done =>
        /\ (/\ infer_call.func \in
                  {"Add", "Subtract", "Multiply", "Divide", "Modulus", "Equal", "NotEqual",
                   "LessThan", "LessThanOrEqual", "GreaterThan", "GreaterThanOrEqual",
                   "And", "Or", "Not"}
            /\ Len(infer_call.inputs_type) = 2
            /\ infer_call.inputs_type[1] \in
                  {"Int16", "Int32", "Int64", "Float32", "Float64", "Decimal"}
            /\ infer_call.inputs_type[2] = "Boolean") => infer_call.ret = None
        /\ infer_call.ret.some = Registered(infer_call.func, infer_call.inputs_type)

\* C22 witness: Equal of a Decimal and a Boolean has been inferred as None.
C22_Witness ==
    /\ infer_call.done
    /\ infer_call.func = "Equal"
    /\ infer_call.inputs_type = <<"Decimal", "Boolean">>
    /\ infer_call.ret = None

\* C23: in every state in which apply_batch can be called, for every batch and
\* both settings of the overflow checks, an apply_batch that returns Ok sets
\* total_count (a usize, kept as its residue) to its previous value plus the
\* number of visible insert rows minus the number of visible delete rows, and
\* with at least one visible row it leaves dirty true and the memoized result
\* absent.
C23_CountFollowsRows ==
    (~panicked /\ ~OwnPending) =>
        \A batch \in Batches : \A overflow_checks \in BOOLEAN :
            LET VisibleCount(b, inserts) ==
                    Cardinality({i \in 1 .. Len(b) :
                        b[i].visible /\ (b[i].op \in {"Insert", "UpdateInsert"}) = inserts})
                r == apply_batch(S, store, batch, TRUE, overflow_checks)
                k == VisibleCount(batch, TRUE)
                m == VisibleCount(batch, FALSE)
            IN  r.ret = "Ok" =>
                   /\ r.s.total_count = total_count + k - m
                   /\ k + m >= 1 => (r.s.dirty /\ r.s.result = None)

\* C23 witness: the five inserts and four deletes of the test's rows have
\* been applied without a flush: the inserts of four rows were cancelled in
\* the cache by their deletes, one entry is left, and total_count is 5 - 4.
C23_Witness ==
    /\ last_call.op = "apply_batch"
    /\ last_call.ret = "Ok"
    /\ dirty
    /\ result = None
    /\ OwnKeys(store) = {}
    /\ live = {ScenarioRow(2)}
    /\ DOMAIN cache = {order_based_scehmaed_serialize(ScenarioRow(2))}
    /\ total_count = 1

\* C24: in every state in which apply_batch or get_output can be called,
\* also after a call that returned an error, neither assertion that guards
\* the load can fail: it is not the case that 0 < cache.len() < total_count
\* (assert_eq of apply_batch), and a state that apply_batch would load is not
\* dirty (assert of read_all_into_memory).
C24_LoadAssertionsHold ==
    (~panicked /\ ~OwnPending) =>
        /\ ~(CacheLen(S) > 0 /\ UsizeGt(total_count, CacheLen(S)))
        /\ NeedsLoad(S) => ~is_dirty(S)

\* C25: in every state in which they can be called, a get_output or an
\* apply_batch whose load fails, with a storage error on the scan or with a
\* decode error on a persisted value, returns the error and leaves the state
\* (cache, dirty, total_count, memoized result) exactly as it was.
C25_FailedLoadChangesNothing ==
    (~panicked /\ ~OwnPending) =>
        \A scan_ok \in BOOLEAN :
            /\ LET r == get_output(S, store, scan_ok)
               IN  r.ret \in {"StorageError", "DecodeError"} => r.s = S
            /\ \A batch \in BatchesOf(1) :
                  LET r == apply_batch(S, store, batch, scan_ok, TRUE)
                  IN  r.ret \in {"StorageError", "DecodeError"} => r.s = S

\* C26: from every state in which get_output can be called, get_output after a
\* flush and the ingest of its write batch returns what get_output returns
\* before the flush, whether get_output was called (and memoized its result)
\* before the flush or not; and after the flush get_output loads exactly when
\* the cache is empty, total_count > 0 and there is no memoized result, and
\* apply_batch exactly when the cache is empty and total_count > 0. A call
\* loads exactly when a store whose scan fails makes it fail.
C26_SameOutputAfterFlush ==
    (~panicked /\ ~OwnPending) =>
        LET GetOutputLoads(s, st) == get_output(s, st, FALSE).ret = "StorageError"
            ApplyBatchLoads(s, st, batch) ==
                apply_batch(s, st, batch, FALSE, TRUE).ret = "StorageError"
            before   == get_output(S, store, TRUE)
            plain    == flush(S, write_batch, 0)
            memoized == flush(before.s, write_batch, 0)
            After(f) == get_output(f.s, ingest_batch(store, f.wb), TRUE)
            Reloads(f) ==
                LET st == ingest_batch(store, f.wb)
                    unloaded == CacheLen(f.s) = 0 /\ UsizeGt(f.s.total_count, 0)
                IN  /\ GetOutputLoads(f.s, st) = (unloaded /\ ~f.s.result.some)
                    /\ \A batch \in BatchesOf(1) : ApplyBatchLoads(f.s, st, batch) = unloaded
        IN  /\ before.ret = "Ok"
            /\ After(plain).ret = "Ok"
            /\ After(plain).out = before.out
            /\ After(memoized).ret = "Ok"
            /\ After(memoized).out = before.out
            /\ Reloads(plain)
            /\ Reloads(memoized)

\* C26 witness: the state was flushed without a memoized result, the write
\* batch ingested, and get_output on the same instance has loaded the rows
\* back and answered with the result of the live rows.
C26_Witness ==
    /\ last_call.op = "get_output"
    /\ last_call.ret = "Ok"
    /\ ~dirty
    /\ hist.recovered = "no"
    /\ cache # EmptyMap
    /\ OnlyLoaded(cache)
    /\ OwnKeys(store) # {}
    /\ write_batch = <<>>
    /\ Cardinality(live) = MaxRowId + 1
    /\ last_call.out = AbstractOutput(live)
    /\ result = last_call.out

Persisted(st) == {<<x, st[x]>> : x \in OwnKeys(st)}

\* The entries the rows of L are persisted as.
EntriesOf(L) ==
    {<<prefixed_key(order_based_scehmaed_serialize(row)),
       serialize_datum_not_null_into(row[value_index])>> : row \in L}

\* C28: under a stream in which every insert targets a row that is not live
\* and every delete a live row, whenever the state is clean and no flush of it
\* waits to be ingested (at the start, after every flush followed by ingest,
\* after a re-creation) the store holds under the state's prefix exactly the
\* live rows, each under its Sort Key with its value, and as many as
\* total_count; and in every state the row count of the last checkpoint, which
\* a re-creation is handed, is the number of entries a load reads.
C28_CountAuthority ==
    /\ (~panicked /\ ~dirty /\ ~OwnPending) =>
          /\ Persisted(store) = EntriesOf(live)
          /\ Cardinality(OwnKeys(store)) = total_count
    /\ Len(scan_strip_prefix(store)) = ckpt_count
    /\ Persisted(store) = EntriesOf(durable)

\* C28 witness: a flush has been followed by the ingest of its write batch:
\* the store holds exactly the one live row under its Sort Key, and
\* total_count and the row count of the checkpoint are 1.
C28_Witness ==
    /\ last_call.op = "flush"
    /\ last_call.ret = "Ok"
    /\ ~dirty
    /\ ~flush_pending
    /\ write_batch = <<>>
    /\ cache = EmptyMap
    /\ total_count = 1
    /\ ckpt_count = 1
    /\ live = {<<"def", 1>>}
    /\ Persisted(store) = EntriesOf(live)

\* C29: under a stream in which every insert targets a row that is not live
\* and every delete a live row, whenever the cache is resident (the state is
\* dirty, or clean with a non-empty cache) total_count is the number of cache
\* entries with a present value (Insert or DeleteInsert), so it is at most
\* cache.len(); and total_count is never below zero.
C29_CountIsPresentEntries ==
    ~panicked =>
        /\ (dirty \/ cache # EmptyMap) =>
              /\ total_count =
                     Cardinality({k \in DOMAIN cache : cache[k].tag \in {"Insert", "DeleteInsert"}})
              /\ total_count <= CacheLen(S)
        /\ total_count >= 0

\* C29 witness: a resident dirty cache holds a tombstone beside a present
\* entry, and total_count counts the present entry only.
C29_Witness ==
    /\ dirty
    /\ CacheLen(S) = 2
    /\ Cardinality({k \in DOMAIN cache : cache[k].tag \in {"Insert", "DeleteInsert"}}) = 1
    /\ total_count = 1
    /\ \E k \in DOMAIN cache : cache[k].tag = "Delete"

\* C30: under a stream in which every insert targets a row that is not live
\* and every delete a live row, in every reachable state in which the
\* memoized result is present it is the delimiter-join of the values of the
\* live rows in Sort Key order, also after a flush has emptied the cache; a
\* clean get_output returns it; and an apply_batch that applies a visible row
\* leaves no memoized result.
C30_MemoCoherent ==
    ~panicked =>
        /\ result.some => result = AbstractOutput(live)
        /\ (result.some /\ ~dirty) =>
              \A scan_ok \in BOOLEAN :
                  get_output(S, store, scan_ok) = [s |-> S, ret |-> "Ok", out |-> result]
        /\ ~OwnPending =>
              \A batch \in BatchesOf(1) :
                  LET r == apply_batch(S, store, batch, TRUE, TRUE)
                  IN  (r.ret = "Ok" /\ VisibleRows(batch) # <<>>) => r.s.result = None

\* C30 witness: a result memoized while the state was dirty has been returned
\* by get_output after the flush emptied the cache, and it is the join of the
\* two live rows.
C30_Witness ==
    /\ last_call.op = "get_output"
    /\ last_call.ret = "Ok"
    /\ ~dirty
    /\ cache = EmptyMap
    /\ result.some
    /\ last_call.out = result
    /\ Cardinality(live) = 2
    /\ result = AbstractOutput(live)

(***************************************************************************)
(* C31 as stated: after any add_fragment and link_child calls,             *)
(* get_fragment_type_by_id and get_distribution_type_by_id return an error *)
(* exactly for the ids that were never added, an added id has distribution *)
(* Single if the fragment was singleton when it was last added and Hash    *)
(* otherwise, and get_root_fragment returns the fragment most recently     *)
(* added with is_root = true. The last part fails once the root id is      *)
(* added again with is_root = false: the graph then returns the later      *)
(* fragment.                                                               *)
(***************************************************************************)
C31_RootIsLastRootAdd ==
    /\ \A id \in FragmentIds :
        /\ get_fragment_type_by_id(fragment_graph, id).ret = "Err"
               <=> id \notin DOMAIN graph_log.last
        /\ get_distribution_type_by_id(fragment_graph, id).ret = "Err"
               <=> id \notin DOMAIN graph_log.last
        /\ id \in DOMAIN graph_log.last =>
               get_distribution_type_by_id(fragment_graph, id).v =
                   (IF graph_log.last[id].is_singleton THEN "Single" ELSE "Hash")
    /\ graph_log.root.some =>
           get_root_fragment(fragment_graph) = [ret |-> "Ok", v |-> graph_log.root.v]

(***************************************************************************)
(* C31, amended: the two queries by id return an error exactly for the ids *)
(* that were never added, and for an added id the fragment type and the    *)
(* distribution (Single for a singleton, else Hash) of the fragment it was *)
(* last added with. The root id is the id of the most recent add with      *)
(* is_root = true, or the id given to new (0 for None) when there was no   *)
(* such add; get_root_fragment returns the fragment last added under the   *)
(* root id, whatever its is_root was, and panics when none was.            *)
(***************************************************************************)
C31_GraphQueries ==
    /\ \A id \in FragmentIds :
        /\ get_fragment_type_by_id(fragment_graph, id) =
               (IF id \in DOMAIN graph_log.last
                THEN [ret |-> "Ok", v |-> graph_log.last[id].fragment_type]
                ELSE [ret |-> "Err", v |-> ""])
        /\ get_distribution_type_by_id(fragment_graph, id) =
               (IF id \in DOMAIN graph_log.last
                THEN [ret |-> "Ok",
                      v |-> IF graph_log.last[id].is_singleton THEN "Single" ELSE "Hash"]
                ELSE [ret |-> "Err", v |-> ""])
    /\ LET root_id == IF graph_log.root.some THEN graph_log.root.v.fragment_id
                      ELSE IF graph_log.new_id.some THEN graph_log.new_id.v
                      ELSE 0
       IN  get_root_fragment(fragment_graph) =
               (IF root_id \in DOMAIN graph_log.last
                THEN [ret |-> "Ok", v |-> graph_log.last[root_id]]
                ELSE [ret |-> "Panic", v |-> NoFragment.v])

\* A singleton fragment was added as the root under id 1 and id 1 was added
\* again, not singleton and with is_root = false: the root is the later
\* fragment and its distribution is Hash. Id 0 was linked as a child of 1
\* and never added: both queries fail for it.
C31_Witness ==
    /\ graph_log.root = [some |-> TRUE, v |-> StreamFragment(1, "Source", TRUE)]
    /\ graph_log.last = (1 :> StreamFragment(1, "Others", FALSE))
    /\ DOMAIN fragment_graph.child_edges = {1}
    /\ fragment_graph.child_edges[1] = {0}
    /\ get_root_fragment(fragment_graph) =
           [ret |-> "Ok", v |-> StreamFragment(1, "Others", FALSE)]
    /\ get_distribution_type_by_id(fragment_graph, 1) = [ret |-> "Ok", v |-> "Hash"]
    /\ get_fragment_type_by_id(fragment_graph, 0).ret = "Err"
    /\ get_distribution_type_by_id(fragment_graph, 0).ret = "Err"

====
